---- MODULE Spec2Model ----
(***************************************************************************)
(* Model of src/index.js: the stock monitor.  One perpetual loop           *)
(* (startMonitoring) polls the configured SKUs round-robin, classifies     *)
(* each inventory response (checkSku / checkSkuAndProcess), overwrites the *)
(* per-SKU record in lastLogs and hands notifications to sendMessage,      *)
(* gated by two booleans that the chat commands toggle.  The loop is       *)
(* suspended at three places, where it waits for I/O or a timer: the       *)
(* inventory fetch, the Telegram send and the sleep.  Command handlers run *)
(* only while it is suspended there; the code between two such places runs *)
(* as one step (continuations of already settled promises are microtasks,  *)
(* which run before any other callback).                                   *)
(***************************************************************************)
EXTENDS Integers, Sequences, FiniteSets

VARIABLES
  SKU_LIST,                   \* configured SKUs, in order (index.js:7-11)
  CHAT_ID,                    \* TRUE iff a destination chat is configured
  lastLogs,                   \* sku -> latest log entry (index.js:52)
  stockNotificationsEnabled,  \* index.js:53
  errorNotificationsEnabled,  \* index.js:54
  currentIndex,               \* cursor of startMonitoring (0-based)
  pc,                         \* the await at which the loop is suspended
  sku,                        \* SKU under check in the current tick
  ticks,                      \* number of ticks started so far; the clock
  checks,                     \* per list position: fetches issued so far
  res,                        \* what the current tick's fetch settled with
  written,                    \* the entry stored by the current tick
  sent,                       \* sendMessage calls made by the current tick
  delivery,                   \* how the current tick's send ended
  stockTally,                 \* per SKU: the ticks that found it available
                              \* with the stock gate open, and the stock
                              \* messages handed to sendMessage for it
  toggled,                    \* per gate: parity of the toggle commands
                              \* handled so far
  inflight                    \* inventory fetches issued and not yet settled

vars == <<SKU_LIST, CHAT_ID, lastLogs, stockNotificationsEnabled,
          errorNotificationsEnabled, currentIndex, pc, sku,
          ticks, checks, res, written, sent, delivery,
          stockTally, toggled, inflight>>

(***************************************************************************)
(* Bounds of the model.                                                    *)
(***************************************************************************)
MaxSkus == 2      \* longest configured SKU list
MaxTicks == 3     \* ticks started in the bounded specification

(***************************************************************************)
(* JavaScript values that the inventory payload can carry.                 *)
(***************************************************************************)
Undefined == [type |-> "undefined", val |-> ""]
Null == [type |-> "null", val |-> ""]
Str(s) == [type |-> "string", val |-> s]
Num(s) == [type |-> "number", val |-> s]
Bool(s) == [type |-> "boolean", val |-> s]
Obj(a, p) == [type |-> "object", is_active |-> a, price |-> p]
Arr(es) == [type |-> "array", elems |-> es]
Data(s, l) == [type |-> "data", success |-> s, listMap |-> l]

\* JavaScript truthiness, as used by `!x`, `x &&` and `x ||`.
Truthy(v) ==
  CASE v.type = "undefined" -> FALSE
    [] v.type = "null" -> FALSE
    [] v.type = "boolean" -> v.val = "true"
    [] v.type = "string" -> v.val # ""
    [] v.type = "number" -> v.val \notin {"0", "NaN"}
    [] OTHER -> TRUE

\* Reading a property of null or undefined throws a TypeError; reading it
\* of a primitive yields undefined.
Throws(v) == v.type \in {"null", "undefined"}
IsActiveOf(v) == IF v.type = "object" THEN v.is_active ELSE Undefined
PriceOf(v) == IF v.type = "object" THEN v.price ELSE Undefined

\* res.data?.success and res.data.listMap
SuccessOf(d) == IF d.type = "data" THEN d.success ELSE Undefined
ListMapOf(d) == IF d.type = "data" THEN d.listMap ELSE Undefined

\* String(x), as escapeMarkdown applies it.
StringOf(v) ==
  CASE v.type = "undefined" -> "undefined"
    [] v.type = "null" -> "null"
    [] OTHER -> v.val

(***************************************************************************)
(* Inputs: configurations, payloads and failures.                          *)
(***************************************************************************)
SkuNames == {"A100", "B200"}
\* SKU names are opaque: the first configured one is called A100.
SkuLists ==
  {l \in UNION {[1..n -> SkuNames] : n \in 1..MaxSkus} : l[1] = "A100"}

InStock(p) == Obj(Str("true"), p)
Items ==
  {Null, Num("0"), Str("x"),
   InStock(Str("1999")), InStock(Str("2499")), InStock(Str("")),
   InStock(Undefined),
   Obj(Str("false"), Str("1999")), Obj(Str("false"), Undefined),
   Obj(Undefined, Str("1999")), Obj(Num("1"), Str("2499"))}
ListMaps ==
  {Null, Undefined, Arr(<<>>), Str("n/a")}
    \cup {Arr(<<i>>) : i \in Items}
    \cup {Arr(<<Obj(Str("false"), Str("1999")), InStock(Str("2499"))>>),
          Arr(<<InStock(Str("1999")), Obj(Str("false"), Str("2499"))>>)}
Payloads ==
  {Null}
    \cup {Data(Bool("true"), l) : l \in ListMaps}
    \cup {Data(Bool("false"), l) :
            l \in {Null, Arr(<<>>), Str("n/a"), Arr(<<InStock(Str("1999"))>>)}}
    \cup {Data(Undefined, Arr(<<InStock(Str("1999"))>>))}
ErrMessages == {Str("timeout of 30000ms exceeded"), Str(""), Undefined}

Pending == [settled |-> "pending"]
Resolved(d) == [settled |-> "resolved", data |-> d]
Rejected(m) == [settled |-> "rejected", message |-> m]

(***************************************************************************)
(* The ledger (lastLogs) and its entries.                                  *)
(***************************************************************************)
\* new Date(): time is measured in ticks started.
Date == ticks

\* mutant: the entry is updated in place; a price that the new outcome does
\* not give is left over from the previous entry of the SKU
createLogEntryInPlace(status, error, price) ==
  [type |-> "object",
   timestamp |-> Date,
   status |-> status,
   error |-> IF Truthy(error) THEN error ELSE Undefined,
   price |-> IF Truthy(price) THEN price
             ELSE IF sku \in DOMAIN lastLogs THEN lastLogs[sku].price
             ELSE Undefined]

\* A property that createLogEntry leaves out reads as undefined.
createLogEntry(status, error, price) ==
  [type |-> "object",
   timestamp |-> Date,
   status |-> status,
   error |-> IF Truthy(error) THEN error ELSE Undefined,
   price |-> IF Truthy(price) THEN price ELSE Undefined]

\* lastLogs[sku]
Get(logs, s) == IF s \in DOMAIN logs THEN logs[s] ELSE Undefined

\* mutant: the ledger is replaced by one holding only the new entry
PutFresh(logs, s, e) == [k \in {s} |-> e]

\* lastLogs[sku] = entry
Put(logs, s, e) == [k \in DOMAIN logs \cup {s} |-> IF k = s THEN e ELSE logs[k]]

NoMsg == [kind |-> "none"]

(***************************************************************************)
(* checkSku and checkSkuAndProcess, as functions of what the fetch settled *)
(* with.  The result names the entry to store (log; Undefined: none), the  *)
(* message to hand to sendMessage (msg) and, for checkSku, the value       *)
(* returned to the caller (ret).                                           *)
(***************************************************************************)
SkuProblemMessage(kind, s) == [kind |-> kind, sku |-> s, price |-> ""]

createStockMessage(s, price) ==
  [kind |-> "stock", sku |-> s, price |-> StringOf(price)]

\* mutant: the error notification is gated by the stock toggle
ErrorsGateOpenWrongFlag == stockNotificationsEnabled

\* mutant: a stale SKU is reported once, not on every tick that finds it
ErrorsGateOpenOncePerSku ==
  /\ errorNotificationsEnabled
  /\ ~(sku \in DOMAIN lastLogs /\ lastLogs[sku].status = "not_found")

\* mutant: the first tick decides with the stock boolean as it was when
\* the tick started (no command is handled before the first fetch is
\* issued, so that is the default), not as it is when the fetch has settled
StockGateAtFirstTickStart ==
  IF ticks = 1 THEN TRUE ELSE stockNotificationsEnabled

\* the gate reads of lines 220 and 238, and of line 282
ErrorsGateOpen == errorNotificationsEnabled
StockGateOpen == stockNotificationsEnabled

\* mutant: only an absent success flag counts as a failure
successFalseOnlyAbsent(data) == SuccessOf(data) = Undefined

\* line 206: !res.data?.success
successFalse(data) == ~Truthy(SuccessOf(data))

\* mutant: the stale-SKU test looks for undefined instead of null
listMapIsUndefined(data) == ListMapOf(data) = Undefined

\* line 215: res.data.listMap === null
listMapIsNull(data) == ListMapOf(data) = Null

\* line 232: !Array.isArray(listMap) || listMap.length === 0
listMapIsMalformed(data) ==
  ListMapOf(data).type # "array" \/ Len(ListMapOf(data).elems) = 0

\* mutant: the failure message is stored without the fallback
errorMsgRaw(message) == message

\* line 261: err.message || "Unknown error"
errorMsgOf(message) ==
  IF Truthy(message) THEN message ELSE Str("Unknown error")

\* catch (err): lines 259-267
checkSkuCatch(message) ==
  [log |-> createLogEntry("error", errorMsgOf(message), Null),
   msg |-> NoMsg, ret |-> Null]

\* the try block after the fetch resolved: lines 203-258
checkSkuTry(s, data) ==
  IF successFalse(data)
  THEN [log |-> createLogEntry("error", Str("API returned success: false"),
                               Null),
        msg |-> NoMsg, ret |-> Null]
  ELSE IF listMapIsNull(data)
  THEN [log |-> createLogEntry("not_found", Null, Null),
        msg |-> IF ErrorsGateOpen THEN SkuProblemMessage("not_found", s)
                                  ELSE NoMsg,
        ret |-> Null]
  ELSE IF listMapIsMalformed(data)
  THEN [log |-> createLogEntry("error",
                               Str("listMap is empty or not an array"), Null),
        msg |-> IF ErrorsGateOpen THEN SkuProblemMessage("check_error", s)
                                  ELSE NoMsg,
        ret |-> Null]
  ELSE LET first == ListMapOf(data).elems[1] IN
       IF Throws(first)
       THEN checkSkuCatch(
              Str("Cannot read properties of null (reading 'is_active')"))
       ELSE [log |-> Undefined, msg |-> NoMsg, ret |-> first]

checkSku(s, r) ==
  IF r.settled = "rejected" THEN checkSkuCatch(r.message)
                            ELSE checkSkuTry(s, r.data)

\* mutant: the stock message is sent for every item, in stock or not
processItemNotifyAlways(s, it) ==
  LET isAvailable == IsActiveOf(it) = Str("true") IN
  [log |-> createLogEntry(IF isAvailable THEN "available" ELSE "unavailable",
                          Null, PriceOf(it)),
   msg |-> IF StockGateOpen THEN createStockMessage(s, PriceOf(it)) ELSE NoMsg,
   ret |-> it]

\* mutant: the stock message is sent only on the transition into available
processItemDeduplicated(s, it) ==
  LET isAvailable == IsActiveOf(it) = Str("true") IN
  [log |-> createLogEntry(IF isAvailable THEN "available" ELSE "unavailable",
                          Null, PriceOf(it)),
   msg |-> IF /\ isAvailable
              /\ StockGateOpen
              /\ ~(Truthy(Get(lastLogs, s))
                     /\ Get(lastLogs, s).status = "available")
           THEN createStockMessage(s, PriceOf(it)) ELSE NoMsg,
   ret |-> it]

\* lines 274-285, for the value checkSku returned
processItem(s, it) ==
  LET isAvailable == IsActiveOf(it) = Str("true") IN
  [log |-> createLogEntry(IF isAvailable THEN "available" ELSE "unavailable",
                          Null, PriceOf(it)),
   msg |-> IF isAvailable /\ StockGateOpen
           THEN createStockMessage(s, PriceOf(it)) ELSE NoMsg,
   ret |-> it]

checkSkuAndProcess(s, r) ==
  LET c == checkSku(s, r) IN
  IF Truthy(c.ret) THEN processItem(s, c.ret) ELSE c

\* mutant: the cursor stops at the last SKU instead of wrapping
NextIndexNoWrap(i) == IF i + 1 < Len(SKU_LIST) THEN i + 1 ELSE i

\* line 298
NextIndex(i) == (i + 1) % Len(SKU_LIST)

(***************************************************************************)
(* The status reply (lines 104-118, 145-167).                              *)
(***************************************************************************)
formatSkuStatus(s, log) ==
  IF ~Truthy(log)
  THEN [sku |-> s, line |-> "no data", detail |-> "", age |-> 0]
  ELSE IF Truthy(log.error)
  THEN [sku |-> s, line |-> "Error", detail |-> StringOf(log.error),
        age |-> Date - log.timestamp]
  ELSE IF log.status = "not_found"
  THEN [sku |-> s, line |-> "SKU not found", detail |-> "",
        age |-> Date - log.timestamp]
  ELSE IF log.status = "available"
  THEN [sku |-> s, line |-> "In stock", detail |-> StringOf(log.price),
        age |-> Date - log.timestamp]
  ELSE [sku |-> s, line |-> "Out of stock", detail |-> "",
        age |-> Date - log.timestamp]

StatusText ==
  IF Len(SKU_LIST) = 0 \/ Cardinality(DOMAIN lastLogs) = 0
  THEN <<[sku |-> "", line |-> "Collecting data", detail |-> "", age |-> 0]>>
  ELSE [i \in 1..Len(SKU_LIST) |->
          formatSkuStatus(SKU_LIST[i], Get(lastLogs, SKU_LIST[i]))]

(***************************************************************************)
(* Initial state: the module has been loaded with a valid configuration    *)
(* (lines 18-26 exit otherwise) and startMonitoring is about to be called. *)
(***************************************************************************)
Init ==
  /\ SKU_LIST \in SkuLists
  /\ CHAT_ID \in BOOLEAN
  /\ lastLogs = <<>>
  /\ stockNotificationsEnabled = TRUE
  /\ errorNotificationsEnabled = TRUE
  /\ currentIndex = 0
  /\ pc = "start"
  /\ sku = ""
  /\ ticks = 0
  /\ checks = [i \in 1..Len(SKU_LIST) |-> 0]
  /\ res = Pending
  /\ written = Undefined
  /\ sent = <<>>
  /\ delivery = "none"
  /\ stockTally = [s \in {SKU_LIST[i] : i \in 1..Len(SKU_LIST)} |->
                     [ticks |-> 0, msgs |-> 0]]
  /\ toggled = [stock |-> 0, errors |-> 0]
  /\ inflight = 0

config == <<SKU_LIST, CHAT_ID>>
gates == <<stockNotificationsEnabled, errorNotificationsEnabled>>
tick == <<sku, ticks, checks, res, written, sent, delivery,
          stockTally>>

(***************************************************************************)
(* The monitoring loop.                                                    *)
(***************************************************************************)
\* lines 294-295 and 190-198: pick the SKU at the cursor and issue its fetch
\* Counters of the model stop counting at MaxTicks.
Counted(x) == IF x < MaxTicks THEN x + 1 ELSE x

BeginTick ==
  /\ sku' = SKU_LIST[currentIndex + 1]
  /\ ticks' = Counted(ticks)
  /\ checks' = [checks EXCEPT ![currentIndex + 1] = Counted(@)]
  /\ res' = Pending
  /\ written' = Undefined
  /\ sent' = <<>>
  /\ delivery' = "none"
  /\ pc' = "fetch"
  /\ inflight' = inflight + 1
  /\ UNCHANGED <<config, gates, lastLogs, currentIndex, stockTally, toggled>>

\* line 311
StartMonitoring ==
  /\ pc = "start"
  /\ BeginTick

\* mutant: a tick that recorded an error ends the loop
FinishUnlessError ==
  /\ currentIndex' = NextIndex(currentIndex)
  /\ pc' = IF written'.type = "object" /\ written'.status = "error"
           THEN "stopped" ELSE "sleep"

\* lines 298-301: advance the cursor and go to sleep
Finish ==
  /\ currentIndex' = NextIndex(currentIndex)
  /\ pc' = "sleep"

\* lines 124-137, up to the await of the Telegram call
sendMessage(m) ==
  /\ sent' = Append(sent, m)
  /\ delivery' = IF CHAT_ID THEN "pending" ELSE "logged"

\* The fetch settles with r; the tick runs on to its next suspension.
Settle(r) ==
  LET out == checkSkuAndProcess(sku, r) IN
  /\ res' = r
  /\ written' = out.log
  /\ lastLogs' = IF out.log = Undefined THEN lastLogs
                                        ELSE Put(lastLogs, sku, out.log)
  /\ stockTally' =
       [stockTally EXCEPT ![sku] =
          [ticks |-> IF out.log # Undefined /\ out.log.status = "available"
                                            /\ stockNotificationsEnabled
                     THEN Counted(@.ticks) ELSE @.ticks,
           msgs |-> IF out.msg # NoMsg /\ out.msg.kind = "stock"
                    THEN Counted(@.msgs) ELSE @.msgs]]
  /\ IF out.msg = NoMsg
     THEN /\ UNCHANGED <<sent, delivery>>
          /\ Finish
     ELSE /\ sendMessage(out.msg)
          /\ IF CHAT_ID THEN pc' = "send" /\ UNCHANGED currentIndex
                        ELSE Finish
  /\ inflight' = inflight - 1
  /\ UNCHANGED <<config, gates, sku, ticks, checks, toggled>>

\* line 198: the awaited axios.get resolves or rejects
FetchResolve ==
  /\ pc = "fetch"
  /\ \E d \in Payloads : Settle(Resolved(d))

FetchReject ==
  /\ pc = "fetch"
  /\ \E m \in ErrMessages : Settle(Rejected(m))

\* mutant: a failed Telegram call is not caught by sendMessage; it reaches
\* the catch of the loop, which skips the advance of the cursor
SendSettleAborts ==
  /\ pc = "send"
  /\ \E ok \in BOOLEAN :
       /\ delivery' = IF ok THEN "delivered" ELSE "failed"
       /\ currentIndex' = IF ok THEN NextIndex(currentIndex) ELSE currentIndex
  /\ pc' = "sleep"
  /\ UNCHANGED <<config, gates, lastLogs, sku, ticks, checks, res, written,
                 sent, stockTally, toggled, inflight>>

\* lines 130-136: the Telegram call settles; a failure is logged
SendSettle ==
  /\ pc = "send"
  /\ \E ok \in BOOLEAN : delivery' = IF ok THEN "delivered" ELSE "failed"
  /\ UNCHANGED <<config, gates, lastLogs, sku, ticks, checks, res, written,
                 sent, stockTally, toggled, inflight>>
  /\ Finish

\* mutant: ticks are started by a periodic timer, whether or not the
\* previous tick has finished
WakeEarly ==
  /\ pc \in {"fetch", "send", "sleep"}
  /\ ticks < MaxTicks
  /\ BeginTick

\* line 301: the timer fires and the loop starts its next tick
Wake ==
  /\ pc = "sleep"
  /\ ticks < MaxTicks
  /\ BeginTick

(***************************************************************************)
(* Commands and the liveness request; they run while the loop is           *)
(* suspended.                                                              *)
(***************************************************************************)
\* lines 92-96; the reply to the command
ToggleStockReply ==
  IF stockNotificationsEnabled THEN "Stock notifications enabled"
                               ELSE "Stock notifications disabled"

\* mutant: the command switches stock notifications off, never on again
ToggleStockOff ==
  /\ pc # "start"
  /\ stockNotificationsEnabled' = FALSE
  /\ toggled' = [toggled EXCEPT !.stock = 1 - @]
  /\ UNCHANGED <<config, lastLogs, errorNotificationsEnabled, currentIndex,
                 pc, tick, inflight>>

ToggleStock ==
  /\ pc # "start"
  /\ stockNotificationsEnabled' = ~stockNotificationsEnabled
  /\ toggled' = [toggled EXCEPT !.stock = 1 - @]
  /\ UNCHANGED <<config, lastLogs, errorNotificationsEnabled, currentIndex,
                 pc, tick, inflight>>

\* lines 98-102; the reply to the command
ToggleErrorsReply ==
  IF errorNotificationsEnabled THEN "Error/SKU problem notifications enabled"
                               ELSE "Error/SKU problem notifications disabled"

\* mutant: the command flips both notification booleans
ToggleErrorsBoth ==
  /\ pc # "start"
  /\ errorNotificationsEnabled' = ~errorNotificationsEnabled
  /\ stockNotificationsEnabled' = ~stockNotificationsEnabled
  /\ toggled' = [toggled EXCEPT !.errors = 1 - @]
  /\ UNCHANGED <<config, lastLogs, currentIndex, pc, tick, inflight>>

ToggleErrors ==
  /\ pc # "start"
  /\ errorNotificationsEnabled' = ~errorNotificationsEnabled
  /\ toggled' = [toggled EXCEPT !.errors = 1 - @]
  /\ UNCHANGED <<config, lastLogs, stockNotificationsEnabled, currentIndex,
                 pc, tick, inflight>>

\* lines 104-118: replies StatusText and writes nothing
Status ==
  /\ pc # "start"
  /\ UNCHANGED vars

\* lines 315-320: replies the uptime and writes nothing
Alive ==
  /\ pc # "start"
  /\ UNCHANGED vars

Next ==
  \/ StartMonitoring
  \/ FetchResolve
  \/ FetchReject
  \/ SendSettle
  \/ Wake
  \/ ToggleStock
  \/ ToggleErrors
  \/ Status
  \/ Alive

Spec == Init /\ [][Next]_vars

(***************************************************************************)
(* The loop without the bound on ticks (while (true), line 292), under the *)
(* fairness its scheduling gives: the fetch settles (it has a timeout,     *)
(* line 199), the Telegram call settles and the timer fires.  Commands     *)
(* may or may not arrive.  Time is not measured here: the clock and the    *)
(* counters start where they stop counting.                                *)
(***************************************************************************)
LiveInit ==
  /\ SKU_LIST \in SkuLists
  /\ CHAT_ID \in BOOLEAN
  /\ lastLogs = <<>>
  /\ stockNotificationsEnabled = TRUE
  /\ errorNotificationsEnabled = TRUE
  /\ currentIndex = 0
  /\ pc = "start"
  /\ sku = ""
  /\ ticks = MaxTicks
  /\ checks = [i \in 1..Len(SKU_LIST) |-> MaxTicks]
  /\ res = Pending
  /\ written = Undefined
  /\ sent = <<>>
  /\ delivery = "none"
  /\ stockTally = [s \in {SKU_LIST[i] : i \in 1..Len(SKU_LIST)} |->
                     [ticks |-> MaxTicks, msgs |-> MaxTicks]]
  /\ toggled = [stock |-> 0, errors |-> 0]
  /\ inflight = 0

WakeUnbounded ==
  /\ pc = "sleep"
  /\ BeginTick

\* One step of the loop: exactly one of these is enabled at each pc.
LoopStep ==
  \/ StartMonitoring
  \/ FetchResolve
  \/ FetchReject
  \/ SendSettle
  \/ WakeUnbounded

LiveNext ==
  \/ StartMonitoring
  \/ FetchResolve
  \/ FetchReject
  \/ SendSettle
  \/ WakeUnbounded
  \/ ToggleStock
  \/ ToggleErrors
  \/ Status
  \/ Alive

LiveSpec == LiveInit /\ [][LiveNext]_vars /\ WF_vars(LoopStep)

(***************************************************************************)
(* Vocabulary of the properties.                                           *)
(***************************************************************************)
\* The fetch of the current tick has settled (its entry, if any, is stored).
Settled == pc \in {"send", "sleep"}

\* The step in which the fetch settles and the tick classifies the result.
SettleStep == pc = "fetch" /\ pc' # "fetch"

Count(q, kinds) == Cardinality({i \in DOMAIN q : q[i].kind \in kinds})
ErrorMsgs(q) == Count(q, {"not_found", "check_error"})
StockMsgs(q) == Count(q, {"stock"})

\* The outcome the tick recorded: the status of the entry it stored.
Outcome(e) == IF e = Undefined THEN "none" ELSE e.status

\* The list position the current tick checks, and the number of SKUs.
N == Len(SKU_LIST)
Completed == IF pc \in {"fetch", "send"} THEN ticks - 1 ELSE ticks

\* The current tick got a payload that passes the success and item-list
\* checks; FirstItem is then the first element of its item list.
PassesChecks ==
  /\ res.settled = "resolved"
  /\ Truthy(SuccessOf(res.data))
  /\ ListMapOf(res.data).type = "array"
  /\ Len(ListMapOf(res.data).elems) > 0
FirstItem == ListMapOf(res.data).elems[1]

MalformedDetail == Str("listMap is empty or not an array")
SkuProblem(e) ==
  \/ Outcome(e) = "not_found"
  \/ Outcome(e) = "error" /\ e.error = MalformedDetail

(***************************************************************************)
(* C1, as claimed: every tick whose outcome is not_found or error sends an *)
(* error notification iff the error gate is enabled at the decision.       *)
(* Violated: a transport failure or a success:false payload notifies       *)
(* nobody.                                                                 *)
(***************************************************************************)
C1_AsClaimed ==
  [][(SettleStep /\ Outcome(written') \in {"not_found", "error"})
       => (ErrorMsgs(sent') = 1 <=> errorNotificationsEnabled)]_vars

(***************************************************************************)
(* C1, amended: a tick whose outcome is not_found, or error because the    *)
(* item list is not a non-empty list, hands exactly one SKU-problem        *)
(* message to sendMessage iff the error gate is enabled when the tick      *)
(* classifies the response, and none otherwise; a tick whose outcome is    *)
(* error for any other cause (transport failure, success flag false, an    *)
(* exception while reading the first item) sends no message, whatever the  *)
(* gate.  No message is added later in the tick.                           *)
(***************************************************************************)
C1_ErrorNotificationGated ==
  [][/\ (SettleStep /\ SkuProblem(written'))
          => /\ ErrorMsgs(sent') = (IF errorNotificationsEnabled THEN 1 ELSE 0)
             /\ Len(sent') = ErrorMsgs(sent')
     /\ (SettleStep /\ Outcome(written') = "error" /\ ~SkuProblem(written'))
          => sent' = <<>>
     /\ (pc = "send") => sent' = sent]_vars

C1_Witness ==
  /\ pc = "sleep"
  /\ Outcome(written) = "error"
  /\ written.error = MalformedDetail
  /\ ErrorMsgs(sent) = 1
  /\ delivery = "failed"
  /\ ~errorNotificationsEnabled

(***************************************************************************)
(* C2, as claimed: in every tick whose outcome is available the ledger     *)
(* entry of the checked SKU is available with the item's price, whatever   *)
(* the stock gate, and exactly one stock message is sent iff the stock     *)
(* gate is enabled.  Violated: createLogEntry drops a falsy price (""),    *)
(* so the entry does not carry the item's price.                           *)
(***************************************************************************)
C2_AsClaimed ==
  [][(SettleStep /\ Outcome(written') = "available")
       => /\ Get(lastLogs', sku).status = "available"
          /\ Get(lastLogs', sku).price = PriceOf(ListMapOf(res'.data).elems[1])
          /\ StockMsgs(sent') = (IF stockNotificationsEnabled THEN 1 ELSE 0)
          /\ Len(sent') = StockMsgs(sent')]_vars

(***************************************************************************)
(* C3: after k completed ticks the cursor is k mod n, the i-th tick        *)
(* (counting from 0) checks the SKU at position i mod n, and every list    *)
(* position has been fetched at least floor(k/n) times, whatever the       *)
(* outcomes.                                                               *)
(***************************************************************************)
C3_RoundRobin ==
  /\ currentIndex = Completed % N
  /\ pc # "start" => sku = SKU_LIST[((ticks - 1) % N) + 1]
  /\ \A i \in 1..N : checks[i] >= Completed \div N

C3_Witness ==
  /\ N = 2
  /\ pc = "sleep"
  /\ ticks = 3
  /\ currentIndex = 1
  /\ checks = <<2, 1>>
  /\ Outcome(written) = "error"

(***************************************************************************)
(* C4: the monitoring loop never stops.  Under the fairness of LiveSpec,   *)
(* for every configured list position a tick that fetches the SKU at that  *)
(* position starts infinitely often: after any tick, whatever its outcome  *)
(* and whether or not its notification send failed, another tick starts.   *)
(***************************************************************************)
C4_LoopNeverStops ==
  \A i \in 1..MaxSkus :
    []<><<pc' = "fetch"
          /\ (i <= N => currentIndex = i - 1 /\ sku' = SKU_LIST[i])>>_vars

C4_Witness ==
  /\ N = 2
  /\ pc = "fetch"
  /\ sku = "A100"
  /\ Outcome(Get(lastLogs, "A100")) = "error"
  /\ Outcome(Get(lastLogs, "B200")) = "available"
  /\ delivery = "none"
  /\ sent = <<>>

(***************************************************************************)
(* C5, as claimed: a payload that passes the success and item-list checks  *)
(* is recorded as available exactly when the first item's activity flag is *)
(* the string "true", as unavailable otherwise, and the entry carries that *)
(* item's price.  Violated: a first item that is null is recorded as an    *)
(* error, a falsy first item (0) is not recorded at all, and a falsy price *)
(* is dropped.                                                             *)
(***************************************************************************)
C5_AsClaimed ==
  (Settled /\ PassesChecks)
    => /\ Outcome(written) =
            (IF IsActiveOf(FirstItem) = Str("true") THEN "available"
                                                     ELSE "unavailable")
       /\ Get(lastLogs, sku) = written
       /\ written.price = PriceOf(FirstItem)

(***************************************************************************)
(* C6, as claimed: a null item list is always recorded as not_found.       *)
(* Violated: the success flag is tested first, so success:false with a     *)
(* null item list is recorded as error.                                    *)
(***************************************************************************)
C6_AsClaimed ==
  (Settled /\ res.settled = "resolved" /\ ListMapOf(res.data) = Null)
    => Outcome(written) = "not_found"

(***************************************************************************)
(* C6, amended: whenever the payload's success flag is truthy and its item *)
(* list is null, the entry recorded for the checked SKU is not_found (with *)
(* no detail), never error.                                                *)
(***************************************************************************)
C6_NullListIsNotFound ==
  (/\ Settled
   /\ res.settled = "resolved"
   /\ Truthy(SuccessOf(res.data))
   /\ ListMapOf(res.data) = Null)
    => /\ Get(lastLogs, sku) = written
       /\ Outcome(written) = "not_found"
       /\ written.error = Undefined

C6_Witness ==
  /\ pc = "sleep"
  /\ res = Resolved(Data(Bool("true"), Null))
  /\ Outcome(Get(lastLogs, sku)) = "not_found"
  /\ ticks = 2

(***************************************************************************)
(* C7: whenever the payload's success flag is false, the entry recorded    *)
(* for the checked SKU is error with the detail "API returned success:     *)
(* false", whatever the item list holds.                                   *)
(***************************************************************************)
C7_SuccessFalseIsError ==
  (/\ Settled
   /\ res.settled = "resolved"
   /\ SuccessOf(res.data) = Bool("false"))
    => /\ Get(lastLogs, sku) = written
       /\ Outcome(written) = "error"
       /\ written.error = Str("API returned success: false")

C7_Witness ==
  /\ pc = "sleep"
  /\ res = Resolved(Data(Bool("false"), Arr(<<InStock(Str("1999"))>>)))
  /\ Outcome(Get(lastLogs, sku)) = "error"

(***************************************************************************)
(* C8: stock notifications are not deduplicated across ticks.  For every   *)
(* SKU, the m ticks that found it available with the stock gate enabled    *)
(* sent exactly m stock messages, one each, whatever entry the SKU had     *)
(* before: no such tick is skipped because the previous tick already       *)
(* found the SKU available.                                                *)
(***************************************************************************)
C8_NoDeduplication ==
  /\ \A s \in DOMAIN stockTally : stockTally[s].msgs = stockTally[s].ticks
  /\ Len(sent) <= 1

C8_Witness ==
  /\ N = 2
  /\ pc = "sleep"
  /\ sku = "A100"
  /\ ticks = 3
  /\ checks[1] = 2
  /\ stockTally["A100"] = [ticks |-> 2, msgs |-> 2]
  /\ StockMsgs(sent) = 1

(***************************************************************************)
(* C9: a tick whose outcome is unavailable sends no message of either      *)
(* kind, whatever the two gates are.                                       *)
(***************************************************************************)
C9_UnavailableNeverNotifies ==
  (Settled /\ Outcome(written) = "unavailable")
    => sent = <<>> /\ delivery = "none" /\ pc = "sleep"

C9_Witness ==
  /\ pc = "sleep"
  /\ Outcome(written) = "unavailable"
  /\ Get(lastLogs, sku) = written
  /\ stockNotificationsEnabled
  /\ errorNotificationsEnabled

(***************************************************************************)
(* C10: when the fetch throws, the tick records error with a non-empty     *)
(* detail for the SKU at the cursor, completes normally (the cursor        *)
(* advances and the loop sleeps), and the following tick checks the next   *)
(* SKU in round-robin order.                                               *)
(***************************************************************************)
C10_FetchFailureIsContained ==
  [][/\ (pc = "fetch" /\ res'.settled = "rejected")
          => /\ sku = SKU_LIST[currentIndex + 1]
             /\ Outcome(Get(lastLogs', sku)) = "error"
             /\ Get(lastLogs', sku).timestamp = ticks
             /\ Get(lastLogs', sku).error.type = "string"
             /\ Get(lastLogs', sku).error.val # ""
             /\ pc' = "sleep"
             /\ currentIndex' = (currentIndex + 1) % N
     /\ (pc = "sleep" /\ res.settled = "rejected" /\ pc' = "fetch")
          => sku' = SKU_LIST[currentIndex + 1]]_vars

C10_Witness ==
  /\ N = 2
  /\ pc = "fetch"
  /\ ticks = 2
  /\ sku = "B200"
  /\ Outcome(Get(lastLogs, "A100")) = "error"
  /\ Get(lastLogs, "A100").error = Str("Unknown error")

(***************************************************************************)
(* C11: whenever a fetch resolves with a payload whose success flag is     *)
(* truthy and whose item list is null, the tick stores for the checked SKU *)
(* an entry not_found with that tick's time, no detail and no price, and   *)
(* hands exactly one not-found message for that SKU to sendMessage if the  *)
(* error gate is enabled, none if it is disabled.  This holds on every     *)
(* such tick, also when the SKU's previous entry is already not_found (as  *)
(* with a single configured SKU).                                          *)
(***************************************************************************)
C11_StaleSkuReportedEveryTick ==
  [][(/\ SettleStep
      /\ res'.settled = "resolved"
      /\ Truthy(SuccessOf(res'.data))
      /\ ListMapOf(res'.data) = Null)
       => /\ sku \in DOMAIN lastLogs'
          /\ lastLogs'[sku] = [type |-> "object", timestamp |-> ticks,
                               status |-> "not_found", error |-> Undefined,
                               price |-> Undefined]
          /\ sent' = (IF errorNotificationsEnabled
                      THEN <<SkuProblemMessage("not_found", sku)>>
                      ELSE <<>>)]_vars

C11_Witness ==
  /\ N = 1
  /\ ticks = 3
  /\ pc = "send"
  /\ res = Resolved(Data(Bool("true"), Null))
  /\ Outcome(Get(lastLogs, "A100")) = "not_found"
  /\ Get(lastLogs, "A100").timestamp = 3
  /\ sent = <<SkuProblemMessage("not_found", "A100")>>
  /\ toggled.errors = 0

(***************************************************************************)
(* C12: in every reachable state each gate is determined by the parity of  *)
(* the toggle commands handled for it since the start: after an odd number *)
(* of toggle_stock commands stock notifications are disabled (the opposite *)
(* of the default), after an even number enabled, however the commands     *)
(* interleave with toggle_errors commands, status queries and ticks; and   *)
(* likewise for toggle_errors and error notifications.                     *)
(***************************************************************************)
C12_ToggleParity ==
  /\ stockNotificationsEnabled = (toggled.stock = 0)
  /\ errorNotificationsEnabled = (toggled.errors = 0)

\* The first tick found the SKU available and sent nothing, so the stock
\* gate was toggled off while its fetch was in flight; it is on again.
C12_Witness ==
  /\ ticks = 1
  /\ pc = "sleep"
  /\ Outcome(written) = "available"
  /\ sent = <<>>
  /\ toggled = [stock |-> 0, errors |-> 1]
  /\ stockNotificationsEnabled
  /\ ~errorNotificationsEnabled

(***************************************************************************)
(* C13: in every tick that sends a notification the entry of the checked   *)
(* SKU is stored when the message is handed to sendMessage, and it is in   *)
(* the ledger for as long as the send is in flight.  When the send         *)
(* settles, successfully or not, the ledger and the stored entry are as    *)
(* they were, no further message is sent in the tick, the cursor advances  *)
(* to the next position and the loop sleeps; after a failed send the tick  *)
(* that follows the sleep fetches the SKU at the advanced cursor.          *)
(***************************************************************************)
C13_SendFailureIsContained ==
  [][/\ (SettleStep /\ sent' # <<>>)
          => /\ written' # Undefined
             /\ written'.timestamp = ticks
             /\ Get(lastLogs', sku) = written'
     /\ (pc = "send")
          => /\ Get(lastLogs, sku) = written
             /\ lastLogs' = lastLogs
             /\ written' = written
             /\ sent' = sent
     /\ (pc = "send" /\ pc' # "send")
          => /\ delivery' \in {"delivered", "failed"}
             /\ pc' = "sleep"
             /\ currentIndex' = (currentIndex + 1) % N
     /\ (pc = "sleep" /\ delivery = "failed" /\ pc' # "sleep")
          => /\ pc' = "fetch"
             /\ sku' = SKU_LIST[currentIndex + 1]
             /\ lastLogs' = lastLogs]_vars

C13_Witness ==
  /\ N = 2
  /\ pc = "sleep"
  /\ ticks = 2
  /\ sku = "B200"
  /\ currentIndex = 0
  /\ delivery = "failed"
  /\ Outcome(written) = "available"
  /\ Get(lastLogs, "B200") = written
  /\ written.timestamp = 2
  /\ sent = <<createStockMessage("B200", Str("1999"))>>

(***************************************************************************)
(* C14, as claimed: after every completed tick the ledger entry of the SKU *)
(* the tick checked is the entry built from that tick's outcome: it is     *)
(* stamped with that tick's time and is exactly what the tick wrote, for   *)
(* every response.  Violated: when the first element of the item list is a *)
(* falsy value other than null (0), checkSku returns it, the test          *)
(* `if (item)` fails and the tick writes nothing, so the SKU keeps its     *)
(* previous entry, or none.                                                *)
(***************************************************************************)
C14_AsClaimed ==
  (pc = "sleep")
    => /\ written # Undefined
       /\ Get(lastLogs, sku) = written
       /\ Get(lastLogs, sku).timestamp = ticks

(***************************************************************************)
(* C15: in every reachable state, also while a tick is suspended on its    *)
(* fetch or its send (when a status query can run), every ledger entry is  *)
(* well formed: its status is one of available, unavailable, not_found,    *)
(* error; it has a detail, a non-empty string, if and only if its status   *)
(* is error; and it has a price only if its status is available or         *)
(* unavailable.                                                            *)
(***************************************************************************)
C15_EntriesWellFormed ==
  \A s \in DOMAIN lastLogs :
    LET e == lastLogs[s] IN
    /\ e.type = "object"
    /\ e.status \in {"available", "unavailable", "not_found", "error"}
    /\ e.timestamp \in 1..ticks
    /\ (e.status = "error") <=> (e.error # Undefined)
    /\ (e.error # Undefined) => (e.error.type = "string" /\ e.error.val # "")
    /\ (e.price # Undefined) => e.status \in {"available", "unavailable"}

C15_Witness ==
  /\ N = 2
  /\ ticks = 3
  /\ pc = "send"
  /\ Outcome(Get(lastLogs, "A100")) = "error"
  /\ Get(lastLogs, "A100").timestamp = 3
  /\ Outcome(Get(lastLogs, "B200")) = "unavailable"
  /\ Get(lastLogs, "B200").price = Str("1999")

(***************************************************************************)
(* C16: polling is single-flight.  At most one inventory fetch is          *)
(* outstanding, and one is outstanding exactly while the loop waits for    *)
(* it.  A fetch is issued only when none is outstanding and no send is in  *)
(* flight: by the start of the loop, or by the timer after the previous    *)
(* tick has settled its fetch, stored its entry and finished its send.     *)
(* The work of a tick always ends in the sleep, and the sleep always ends  *)
(* in the next fetch: exactly one sleep lies between two ticks, for every  *)
(* length of the SKU list.                                                 *)
(***************************************************************************)
C16_SingleFlight ==
  [][/\ inflight' \in {0, 1}
     /\ (inflight' = 1) <=> (pc' = "fetch")
     /\ (inflight' > inflight)
          => /\ inflight = 0
             /\ pc \in {"start", "sleep"}
             /\ delivery # "pending"
             /\ (pc = "sleep") => res.settled # "pending"
             /\ sku' = SKU_LIST[currentIndex + 1]
     /\ (pc \in {"fetch", "send"} /\ pc' # pc)
          => /\ pc' \in {"send", "sleep"}
             /\ (pc' = "sleep") => delivery' # "pending"
     /\ (pc = "sleep" /\ pc' # pc)
          => /\ pc' = "fetch"
             /\ inflight' = inflight + 1]_vars

C16_Witness ==
  /\ SKU_LIST = <<"A100", "B200">>
  /\ ticks = 3
  /\ pc = "fetch"
  /\ inflight = 1
  /\ sku = "A100"
  /\ CHAT_ID
  /\ stockTally["B200"].msgs = 1
  /\ Outcome(Get(lastLogs, "B200")) = "available"
  /\ delivery = "none"

\* The line formatSkuStatus prints for an entry of the given status.
KindLine(status) ==
  CASE status = "error" -> "Error"
    [] status = "not_found" -> "SKU not found"
    [] status = "available" -> "In stock"
    [] status = "unavailable" -> "Out of stock"
    [] OTHER -> "none"

\* The SKU has been checked: a tick for one of its list positions has
\* settled its fetch.
Checked(i) ==
  checks[i] > (IF pc = "fetch" /\ currentIndex = i - 1 THEN 1 ELSE 0)
SkuChecked(s) == \E i \in 1..N : SKU_LIST[i] = s /\ Checked(i)

(***************************************************************************)
(* C17, as claimed: the status reply is the single line "Collecting data"  *)
(* if and only if no configured SKU has a ledger entry; otherwise it has   *)
(* one line per configured SKU, in configured order, which reads "no data" *)
(* for a SKU that has not been checked yet and shows the status of the     *)
(* latest entry for a SKU that has been checked.  Violated: a tick whose   *)
(* item list starts with a falsy element (0) writes no entry, so a SKU     *)
(* that has been checked still reads "no data".                            *)
(***************************************************************************)
C17_AsClaimed ==
  LET text == StatusText
      collecting == Len(text) = 1 /\ text[1].line = "Collecting data"
  IN
  /\ collecting <=> (\A i \in 1..N : SKU_LIST[i] \notin DOMAIN lastLogs)
  /\ ~collecting
       => /\ Len(text) = N
          /\ \A i \in 1..N :
               /\ text[i].sku = SKU_LIST[i]
               /\ text[i].line =
                    (IF SkuChecked(SKU_LIST[i])
                     THEN KindLine(Outcome(Get(lastLogs, SKU_LIST[i])))
                     ELSE "no data")

(***************************************************************************)
(* C18: each piece of state has one kind of writer.  A step of the loop    *)
(* (the start of a tick, the settling of its fetch or of its send,         *)
(* whatever the outcome) leaves both notification booleans unchanged.  A   *)
(* toggle_stock command flips the stock boolean and leaves the error       *)
(* boolean, the ledger, the cursor and the position of the loop unchanged; *)
(* a toggle_errors command does the same with the roles of the booleans    *)
(* exchanged.  Every step that is not a step of the loop (a toggle, a      *)
(* status query, the liveness request) leaves the ledger and the cursor    *)
(* unchanged.                                                              *)
(***************************************************************************)
C18_SingleWriter ==
  [][/\ (pc' # pc) => gates' = gates
     /\ (toggled'.stock # toggled.stock)
          => /\ stockNotificationsEnabled' = ~stockNotificationsEnabled
             /\ errorNotificationsEnabled' = errorNotificationsEnabled
             /\ toggled'.errors = toggled.errors
             /\ <<lastLogs, currentIndex, pc>>' = <<lastLogs, currentIndex, pc>>
     /\ (toggled'.errors # toggled.errors)
          => /\ errorNotificationsEnabled' = ~errorNotificationsEnabled
             /\ stockNotificationsEnabled' = stockNotificationsEnabled
             /\ toggled'.stock = toggled.stock
             /\ <<lastLogs, currentIndex, pc>>' = <<lastLogs, currentIndex, pc>>
     /\ (gates' # gates)
          => \/ toggled'.stock # toggled.stock
             \/ toggled'.errors # toggled.errors
     /\ (pc' = pc)
          => <<lastLogs, currentIndex>>' = <<lastLogs, currentIndex>>]_vars

C18_Witness ==
  /\ SKU_LIST = <<"A100", "B200">>
  /\ pc = "sleep"
  /\ ticks = 1
  /\ delivery = "failed"
  /\ currentIndex = 1
  /\ Outcome(Get(lastLogs, "A100")) = "not_found"
  /\ toggled = [stock |-> 1, errors |-> 0]
  /\ ~stockNotificationsEnabled
  /\ errorNotificationsEnabled

(***************************************************************************)
(* C19: the booleans are read when the tick decides, after its fetch has   *)
(* settled, not when the tick starts.  The tick hands a stock message to   *)
(* sendMessage exactly when its outcome is available and the stock boolean *)
(* is set at that moment, and a SKU-problem message exactly when its       *)
(* outcome is one that notifies and the error boolean is set at that       *)
(* moment: a toggle handled while the fetch was in flight governs the same *)
(* tick (in the first tick, which starts with both booleans set, an odd    *)
(* number of toggles in flight suppresses the message).  A toggle handled  *)
(* during the send or the sleep changes neither the messages of the tick   *)
(* nor the state of its send.                                              *)
(***************************************************************************)
C19_GateReadAtDecision ==
  [][/\ SettleStep
          => /\ StockMsgs(sent') =
                  (IF Outcome(written') = "available"
                        /\ stockNotificationsEnabled THEN 1 ELSE 0)
             /\ ErrorMsgs(sent') =
                  (IF SkuProblem(written')
                        /\ errorNotificationsEnabled THEN 1 ELSE 0)
     /\ (SettleStep /\ ticks = 1 /\ Outcome(written') = "available")
          => (StockMsgs(sent') = 0 <=> toggled.stock = 1)
     /\ (SettleStep /\ ticks = 1 /\ SkuProblem(written'))
          => (ErrorMsgs(sent') = 0 <=> toggled.errors = 1)
     /\ (pc \in {"send", "sleep"} /\ gates' # gates)
          => /\ sent' = sent
             /\ delivery' = delivery
             /\ written' = written
             /\ pc' = pc]_vars

\* The first tick found A100 available and sent nothing: the stock boolean
\* was cleared while its fetch was in flight.  The second tick sent its
\* stock message, and the boolean was cleared again while the send is in
\* flight.
C19_Witness ==
  /\ SKU_LIST = <<"A100", "B200">>
  /\ ticks = 2
  /\ pc = "send"
  /\ Outcome(Get(lastLogs, "A100")) = "available"
  /\ stockTally["A100"] = [ticks |-> 0, msgs |-> 0]
  /\ Outcome(written) = "available"
  /\ StockMsgs(sent) = 1
  /\ delivery = "pending"
  /\ ~stockNotificationsEnabled

(***************************************************************************)
(* C20: the ledger only grows in keys.  In every reachable state the SKUs  *)
(* with an entry are configured SKUs; no step removes the entry of a SKU;  *)
(* and once some SKU has an entry the status reply is never again the      *)
(* "Collecting data" answer.                                               *)
(***************************************************************************)
C20_LedgerKeysOnlyGrow ==
  [][/\ DOMAIN lastLogs \subseteq {SKU_LIST[i] : i \in 1..N}
     /\ DOMAIN lastLogs' \subseteq {SKU_LIST[i] : i \in 1..N}
     /\ DOMAIN lastLogs \subseteq DOMAIN lastLogs'
     /\ (DOMAIN lastLogs # {})
          => /\ StatusText[1].line # "Collecting data"
             /\ StatusText'[1].line # "Collecting data"
             /\ Len(StatusText') = N]_vars

C20_Witness ==
  /\ SKU_LIST = <<"A100", "B200">>
  /\ ticks = 3
  /\ pc = "sleep"
  /\ DOMAIN lastLogs = {"A100", "B200"}
  /\ Get(lastLogs, "A100").timestamp = 3
  /\ Get(lastLogs, "B200").timestamp = 2
  /\ StatusText[2].line = "Out of stock"

====
